---- MODULE Spec2Model ----
(***************************************************************************)
(* A model of the finl_parse tokenizer (src/src/lib.rs, tokens.rs,         *)
(* commands.rs).  One Parser is built from a string, commands are          *)
(* registered, and parse() is called once.  parse() is modelled step by    *)
(* step: one action per arm of the scanning loop of text_parse and per     *)
(* outcome of command_parse / parse_required_argument.  The recursion      *)
(* text_parse -> command_parse -> parse_required_argument -> text_parse is *)
(* kept as an explicit stack of text_parse activations (frames).           *)
(*                                                                         *)
(* Strings are sequences of one-character strings; columns are byte        *)
(* offsets, 0-based as in the source (all modelled characters are ASCII).  *)
(***************************************************************************)
EXTENDS Integers, Sequences, FiniteSets, TLC

VARIABLES
    input,          \* the &str handed to Parser::from_string
    commands,       \* Parser.commands: the registered Command values, one per name
    lines,          \* Parser.lines: the lines the supplier has not yet handed out
    line,           \* Parser.line: file, line_number, contents
    char_iterator,  \* Parser.char_iterator: offset of the next character in line.contents
    output,         \* Parser.output
    stack,          \* Parser.stack: the group stack
    frames,         \* the active text_parse calls, innermost last
    pc,             \* "new" (built, parse() not called), "parsing", "done"
    result          \* the vector parse() returned

vars == <<input, commands, lines, line, char_iterator, output, stack, frames, pc, result>>

\* Longest source string drawn as input.
MaxInput == 5

NL == "\n"
Backslash == "\\"
Letters == {"a"}
Whitespace == {" "}
\* The characters of a line: a letter, a blank, and the four the scanner dispatches on.
Chars == Letters \cup Whitespace \cup {Backslash, "%", "{", "}"}
InputChars == Chars \cup {NL}
InputStrings == UNION {[1..n -> InputChars] : n \in 0..MaxInput}

\* The names define_command is called with and the parameter lists it is given.
CommandNames == {<<"a">>}
ParameterLists ==
    { <<>>,
      << <<"Required", "ParsedTokens">> >>,
      << <<"Star", "Boolean">> >> }

letter_test(ch) == ch \in Letters
is_whitespace(ch) == ch \in Whitespace

\* str::lines(): the pieces between line feeds; a final line feed starts no line.
RECURSIVE SplitLines(_, _, _)
SplitLines(s, i, cur) ==
    IF i > Len(s)
    THEN (IF cur = <<>> THEN <<>> ELSE <<cur>>)
    ELSE IF s[i] = NL
         THEN <<cur>> \o SplitLines(s, i + 1, <<>>)
         ELSE SplitLines(s, i + 1, Append(cur, s[i]))

StrLines(s) == SplitLines(s, 1, <<>>)

DefaultLine == [file |-> "", line_number |-> 0, contents |-> <<>>]
StringConstantLine == [file |-> "STRING CONSTANT", line_number |-> 0, contents |-> <<>>]

\* ---------------------------------------------------------------- tokens.rs

Location(ln, column) ==
    [file |-> ln.file, line_number |-> ln.line_number, column |-> column]

ErrorContext(ln, column) ==
    [location |-> Location(ln, column), line_contents |-> ln.contents]

ParsedText(loc, text) == [tag |-> "Ok", kind |-> "ParsedText", location |-> loc, text |-> text]
Bgroup(loc) == [tag |-> "Ok", kind |-> "Bgroup", location |-> loc]
Egroup(loc) == [tag |-> "Ok", kind |-> "Egroup", location |-> loc]
CommandToken(loc, command, args) ==
    [tag |-> "Ok", kind |-> "Command", location |-> loc, command |-> command, args |-> args]

Command(name, args) == [name |-> name, parameters |-> args]

\* Option<GroupType> of the top of a group stack.
NoGroup == "None"
TopOfStack(stk) == IF stk = <<>> THEN NoGroup ELSE stk[Len(stk)]

\* ---------------------------------------------------------------- the cursor

\* The cursor part of the parser: the line supplier, the line and the iterator.
Cursor(ls, ln, it) == [lines |-> ls, line |-> ln, char_iterator |-> it]

\* char_iterator.peek() is None
AtEnd(p) == p.char_iterator >= Len(p.line.contents)
\* the character char_iterator.peek() yields; its column is p.char_iterator
PeekChar(p) == p.line.contents[p.char_iterator + 1]
\* char_iterator.next()
Advance(p) == [p EXCEPT !.char_iterator = @ + 1]

next_line(p) ==
    IF p.lines = <<>>
    THEN [ok |-> FALSE, p |-> Cursor(<<>>, DefaultLine, 0)]
    ELSE [ok |-> TRUE,
          p  |-> Cursor(Tail(p.lines),
                        [p.line EXCEPT !.line_number = @ + 1, !.contents = Head(p.lines)],
                        0)]

\* The blank-line test of skip_whitespace off by one.
SkipOutcome_off_by_one(new_line_count) ==
    IF new_line_count > 2 THEN "FoundBlankLine" ELSE "Skipped"

SkipOutcome(new_line_count) ==
    IF new_line_count > 1 THEN "FoundBlankLine" ELSE "Skipped"

RECURSIVE SkipWhitespaceLoop(_, _)
SkipWhitespaceLoop(p, new_line_count) ==
    IF AtEnd(p)
    THEN LET nl == next_line(p)
         IN  IF nl.ok
             THEN SkipWhitespaceLoop(nl.p, new_line_count + 1)
             ELSE [p |-> nl.p, outcome |-> "EndOfFile"]
    ELSE IF is_whitespace(PeekChar(p))
         THEN SkipWhitespaceLoop(Advance(p), new_line_count)
         ELSE [p |-> p, outcome |-> SkipOutcome(new_line_count)]

skip_whitespace(p) == SkipWhitespaceLoop(p, 0)

\* get_column without the step to the next line at the end of a line.
get_column_stays_on_line(p) ==
    [p |-> p, column |-> IF AtEnd(p) THEN 0 ELSE p.char_iterator]

\* get_column returning the column it stood at before it moved to the next line.
get_column_stale_column(p) ==
    IF AtEnd(p)
    THEN [p |-> next_line(p).p, column |-> p.char_iterator]
    ELSE [p |-> p, column |-> p.char_iterator]

get_column(p) ==
    IF AtEnd(p)
    THEN [p |-> next_line(p).p, column |-> 0]
    ELSE [p |-> p, column |-> p.char_iterator]

\* The offset of the first character at or after offset i that is not in set S
\* (the length of the line when there is none).
RECURSIVE SkipRun(_, _, _)
SkipRun(contents, i, S) ==
    IF i < Len(contents) /\ contents[i + 1] \in S
    THEN SkipRun(contents, i + 1, S)
    ELSE i

\* get_command_name without the skip of the whitespace behind a name.
get_command_name_keeps_whitespace(p) ==
    IF AtEnd(p)
    THEN [p |-> p, name |-> <<" ">>]
    ELSE IF letter_test(PeekChar(p))
         THEN LET name_end == SkipRun(p.line.contents, p.char_iterator, Letters)
              IN  [p    |-> [p EXCEPT !.char_iterator = name_end],
                   name |-> SubSeq(p.line.contents, p.char_iterator + 1, name_end)]
         ELSE [p |-> p, name |-> <<PeekChar(p)>>]

get_command_name(p) ==
    IF AtEnd(p)
    THEN [p |-> p, name |-> <<" ">>]
    ELSE IF letter_test(PeekChar(p))
         THEN LET name_end == SkipRun(p.line.contents, p.char_iterator, Letters)
                  after    == SkipRun(p.line.contents, name_end, Whitespace)
              IN  [p    |-> [p EXCEPT !.char_iterator = after],
                   name |-> SubSeq(p.line.contents, p.char_iterator + 1, name_end)]
         ELSE [p |-> p, name |-> <<PeekChar(p)>>]

\* ---------------------------------------------------------------- output

push_text_block(out, ln, start, end) ==
    IF start # end
    THEN Append(out, ParsedText(Location(ln, start), SubSeq(ln.contents, start + 1, end)))
    ELSE out

push_eol_text_block(out, ln, start) ==
    push_text_block(out, ln, start, Len(ln.contents))

push_error(out, error) == Append(out, error)

push_token(out, token) == Append(out, token)

push_command(out, ln, command, args, column) ==
    push_token(out, CommandToken(Location(ln, column), command, args))

\* undefined_command with the column dropped, as in the two functions below it.
undefined_command_column_zero(ln, command_name, column) ==
    [tag |-> "Err", kind |-> "UndefinedCommand",
     context |-> ErrorContext(ln, 0), command_name |-> command_name]

undefined_command(ln, command_name, column) ==
    [tag |-> "Err", kind |-> "UndefinedCommand",
     context |-> ErrorContext(ln, column), command_name |-> command_name]

unimplemented(ln, column) ==
    [tag |-> "Err", kind |-> "Unimplemented", context |-> ErrorContext(ln, column)]

blank_line_while_parsing_command_arguments(ln, command_name, arg_number) ==
    [tag |-> "Err", kind |-> "BlankLineWhileParsingCommandArguments",
     context |-> ErrorContext(ln, 0), command_name |-> command_name,
     arg_number |-> arg_number]

unexpected_eof_while_parsing_command_arguments(ln, command_name, arg_number) ==
    [tag |-> "Err", kind |-> "UnexpectedEOFWhileParsingCommandArguments",
     context |-> ErrorContext(ln, 0), command_name |-> command_name,
     arg_number |-> arg_number]

unexpected_close_brace(ln, group_type, column) ==
    [tag |-> "Err", kind |-> "UnexpectedCloseBrace",
     context |-> ErrorContext(ln, column), group_type |-> group_type]

\* ---------------------------------------------------------------- state

Cur == Cursor(lines, line, char_iterator)

SetCursor(p) ==
    /\ lines' = p.lines
    /\ line' = p.line
    /\ char_iterator' = p.char_iterator

\* A text_parse activation: "loop" (in the scanning loop, start is its local) or
\* "argument" (suspended in command_parse ->
\* parse_required_argument at the nested text_parse call; tokens_end and loc are
\* parse_required_argument's locals).
Frame(at, start, tokens_end, loc) ==
    [at |-> at, start |-> start, tokens_end |-> tokens_end, loc |-> loc]

Top == frames[Len(frames)]
Caller == SubSeq(frames, 1, Len(frames) - 1)
ReplaceTop(f) == Append(Caller, f)

InLoop == pc = "parsing" /\ frames # <<>> /\ Top.at = "loop"
Scanning(ch) == InLoop /\ ~AtEnd(Cur) /\ PeekChar(Cur) = ch

\* Parser::from_string, before any define_command.
Init ==
    /\ input \in InputStrings
    /\ commands = {}
    /\ LET p == next_line(Cursor(StrLines(input), StringConstantLine, 0)).p
       IN  /\ lines = p.lines
           /\ line = p.line
           /\ char_iterator = p.char_iterator
    /\ output = <<>>
    /\ stack = <<>>
    /\ frames = <<>>
    /\ pc = "new"
    /\ result = <<>>

\* define_command: insert the command, replacing one of the same name.
DefineCommand ==
    /\ pc = "new"
    /\ \E name \in CommandNames, args \in ParameterLists :
          commands' = {c \in commands : c.name # name} \cup {Command(name, args)}
    /\ UNCHANGED <<input, lines, line, char_iterator, output, stack, frames, pc, result>>

\* The cursor after the head of text_parse: leading whitespace is skipped when
\* the next character is the first of its line.
AfterLeadingWhitespace(p) ==
    IF ~AtEnd(p) /\ p.char_iterator = 0 THEN skip_whitespace(p).p ELSE p

\* The frames once text_parse, called with the frames callers active and the
\* cursor p, is through its head: in its loop with start at the cursor, or
\* returned at once when no character is left on the line.
EnterTextParse(callers, p) ==
    IF AtEnd(AfterLeadingWhitespace(p))
    THEN callers
    ELSE Append(callers, Frame("loop", AfterLeadingWhitespace(p).char_iterator, 0, 0))

\* text_parse returns with the output out: to parse_required_argument, or to
\* parse(), which returns the output and leaves the parser's own empty.
ReturnFromTextParse(out) ==
    IF Caller = <<>>
    THEN /\ frames' = <<>>
         /\ result' = out
         /\ output' = <<>>
         /\ pc' = "done"
    ELSE /\ frames' = Caller
         /\ output' = out
         /\ UNCHANGED <<result, pc>>

\* parse() is called and calls text_parse, which enters its loop, or returns at
\* once, and parse() with it: the output it takes is then still empty.
Parse ==
    /\ pc = "new"
    /\ SetCursor(AfterLeadingWhitespace(Cur))
    /\ frames' = EnterTextParse(<<>>, Cur)
    /\ pc' = IF EnterTextParse(<<>>, Cur) = <<>> THEN "done" ELSE "parsing"
    /\ UNCHANGED <<input, commands, output, stack, result>>

\* The loop of text_parse ends with the line: the pending text is pushed and
\* text_parse returns.
TextParseEndOfLine ==
    /\ InLoop /\ AtEnd(Cur)
    /\ ReturnFromTextParse(push_eol_text_block(output, line, Top.start))
    /\ UNCHANGED <<input, commands, lines, line, char_iterator, stack>>

\* Any character but \\ % { }: it joins the pending text.
TextParseOther ==
    /\ InLoop /\ ~AtEnd(Cur)
    /\ PeekChar(Cur) \notin {Backslash, "%", "{", "}"}
    /\ char_iterator' = char_iterator + 1
    /\ UNCHANGED <<input, commands, lines, line, output, stack, frames, pc, result>>

\* %: the pending text is pushed, the rest of the line dropped, and text_parse
\* returns.
TextParseComment ==
    /\ Scanning("%")
    /\ ReturnFromTextParse(push_text_block(output, line, Top.start, char_iterator))
    /\ SetCursor(next_line(Cur).p)
    /\ UNCHANGED <<input, commands, stack>>

\* {: a Bgroup token, a Brace group is opened.
TextParseOpenBrace ==
    /\ Scanning("{")
    /\ LET out == push_token(push_text_block(output, line, Top.start, char_iterator),
                             Bgroup(Location(line, char_iterator)))
           gc  == get_column(Advance(Cur))
       IN  /\ output' = out
           /\ stack' = Append(stack, "Brace")
           /\ SetCursor(gc.p)
           /\ frames' = ReplaceTop([Top EXCEPT !.start = gc.column])
    /\ UNCHANGED <<input, commands, pc, result>>

\* } closing a Brace group: an Egroup token.
TextParseCloseBrace ==
    /\ Scanning("}")
    /\ TopOfStack(stack) = "Brace"
    /\ LET out == push_token(push_text_block(output, line, Top.start, char_iterator),
                             Egroup(Location(line, char_iterator)))
           gc  == get_column(Advance(Cur))
       IN  /\ output' = out
           /\ stack' = SubSeq(stack, 1, Len(stack) - 1)
           /\ SetCursor(gc.p)
           /\ frames' = ReplaceTop([Top EXCEPT !.start = gc.column])
    /\ UNCHANGED <<input, commands, pc, result>>

\* } with a RequiredArgument group on top: the group is popped and text_parse
\* returns; the } is not consumed.
TextParseCloseArgument ==
    /\ Scanning("}")
    /\ TopOfStack(stack) = "RequiredArgument"
    /\ ReturnFromTextParse(push_text_block(output, line, Top.start, char_iterator))
    /\ stack' = SubSeq(stack, 1, Len(stack) - 1)
    /\ UNCHANGED <<input, commands, lines, line, char_iterator>>

\* } with anything else on top, or nothing: an UnexpectedCloseBrace error; a
\* group popped by mistake is pushed back.
TextParseUnexpectedCloseBrace ==
    /\ Scanning("}")
    /\ TopOfStack(stack) \notin {"Brace", "RequiredArgument"}
    /\ LET top_of_stack == TopOfStack(stack)
           out == push_error(push_text_block(output, line, Top.start, char_iterator),
                             unexpected_close_brace(line, top_of_stack, char_iterator))
           gc  == get_column(Advance(Cur))
       IN  /\ output' = out
           /\ stack' = IF top_of_stack = NoGroup
                       THEN stack
                       ELSE Append(SubSeq(stack, 1, Len(stack) - 1), top_of_stack)
           /\ SetCursor(gc.p)
           /\ frames' = ReplaceTop([Top EXCEPT !.start = gc.column])
    /\ UNCHANGED <<input, commands, pc, result>>

\* ---------------------------------------------------------------- commands

\* The head of the \\ arm and of command_parse: the pending text is pushed, the
\* backslash consumed, the name read.
CommandHead ==
    LET gn == get_command_name(Advance(Cur))
    IN  [out           |-> push_text_block(output, line, Top.start, char_iterator),
         command_start |-> char_iterator,
         command_name  |-> gn.name,
         p             |-> gn.p]

Defined(name) == \E c \in commands : c.name = name
Lookup(name) == CHOOSE c \in commands : c.name = name

\* command_parse has returned to the \\ arm of text_parse with cursor p, output
\* out: start becomes get_column() and the loop goes on.
ResumeLoop(p, out) ==
    LET gc == get_column(p)
    IN  /\ output' = out
        /\ SetCursor(gc.p)
        /\ frames' = ReplaceTop(Frame("loop", gc.column, 0, 0))

\* \\name with no such command: an UndefinedCommand error.
CommandUndefined ==
    /\ Scanning(Backslash)
    /\ LET h == CommandHead
       IN  /\ ~Defined(h.command_name)
           /\ ResumeLoop(h.p, push_error(h.out,
                   undefined_command(h.p.line, h.command_name, h.command_start)))
    /\ UNCHANGED <<input, commands, stack, pc, result>>

\* A command with no parameters: the loop over the parameters is empty and the
\* Command token is pushed.
CommandNoParameters ==
    /\ Scanning(Backslash)
    /\ LET h == CommandHead
       IN  /\ Defined(h.command_name)
           /\ Lookup(h.command_name).parameters = <<>>
           /\ ResumeLoop(h.p, push_command(h.out, h.p.line, Lookup(h.command_name),
                                           <<>>, h.command_start))
    /\ UNCHANGED <<input, commands, stack, pc, result>>

\* The first parameter has a format other than Required: Unimplemented at the
\* backslash, and command_parse returns.
CommandUnimplementedFormat ==
    /\ Scanning(Backslash)
    /\ LET h == CommandHead
       IN  /\ Defined(h.command_name)
           /\ Lookup(h.command_name).parameters # <<>>
           /\ Lookup(h.command_name).parameters[1][1] # "Required"
           /\ ResumeLoop(h.p, push_error(h.out, unimplemented(h.p.line, h.command_start)))
    /\ UNCHANGED <<input, commands, stack, pc, result>>

\* The first parameter is Required: what parse_required_argument starts from.
RequiredHead ==
    LET h  == CommandHead
        sw == skip_whitespace(h.p)
    IN  [out          |-> h.out,
         command_name |-> Lookup(h.command_name).name,
         outcome      |-> sw.outcome,
         p            |-> sw.p]

FirstParameterRequired ==
    /\ Scanning(Backslash)
    /\ Defined(CommandHead.command_name)
    /\ Lookup(CommandHead.command_name).parameters # <<>>
    /\ Lookup(CommandHead.command_name).parameters[1][1] = "Required"

\* The whitespace before the argument holds a blank line.
RequiredArgumentBlankLine ==
    /\ FirstParameterRequired
    /\ LET r == RequiredHead
       IN  /\ r.outcome = "FoundBlankLine"
           /\ ResumeLoop(r.p, push_error(r.out,
                   blank_line_while_parsing_command_arguments(r.p.line, r.command_name, 1)))
    /\ UNCHANGED <<input, commands, stack, pc, result>>

\* The input ends before the argument.
RequiredArgumentEndOfFile ==
    /\ FirstParameterRequired
    /\ LET r == RequiredHead
       IN  /\ r.outcome = "EndOfFile"
           /\ ResumeLoop(r.p, push_error(r.out,
                   unexpected_eof_while_parsing_command_arguments(r.p.line, r.command_name, 1)))
    /\ UNCHANGED <<input, commands, stack, pc, result>>

\* The argument does not start with {: Unimplemented at its first character,
\* which is not consumed.
RequiredArgumentNoBrace ==
    /\ FirstParameterRequired
    /\ LET r == RequiredHead
       IN  /\ r.outcome = "Skipped"
           /\ PeekChar(r.p) # "{"
           /\ ResumeLoop(r.p, push_error(r.out, unimplemented(r.p.line, r.p.char_iterator)))
    /\ UNCHANGED <<input, commands, stack, pc, result>>

\* The argument starts with {: a RequiredArgument group is opened, the { consumed
\* and text_parse called for the argument's content; it enters its loop, or
\* returns at once.
RequiredArgumentOpen ==
    /\ FirstParameterRequired
    /\ LET r == RequiredHead
       IN  /\ r.outcome = "Skipped"
           /\ PeekChar(r.p) = "{"
           /\ stack' = Append(stack, "RequiredArgument")
           /\ SetCursor(AfterLeadingWhitespace(Advance(r.p)))
           /\ output' = r.out
           /\ frames' = EnterTextParse(ReplaceTop(Frame("argument", Top.start, Len(r.out),
                                                        r.p.char_iterator)),
                                       Advance(r.p))
    /\ UNCHANGED <<input, commands, pc, result>>

\* The nested text_parse has returned: what it pushed is split off the output
\* and dropped, parse_required_argument returns Unimplemented at the {, which
\* command_parse pushes before it returns.
RequiredArgumentReturn ==
    /\ pc = "parsing" /\ frames # <<>> /\ Top.at = "argument"
    /\ ResumeLoop(Cur, push_error(SubSeq(output, 1, Top.tokens_end),
                                  unimplemented(line, Top.loc)))
    /\ UNCHANGED <<input, commands, stack, pc, result>>

Next ==
    \/ DefineCommand
    \/ Parse
    \/ TextParseEndOfLine
    \/ TextParseOther
    \/ TextParseComment
    \/ TextParseOpenBrace
    \/ TextParseCloseBrace
    \/ TextParseCloseArgument
    \/ TextParseUnexpectedCloseBrace
    \/ CommandUndefined
    \/ CommandNoParameters
    \/ CommandUnimplementedFormat
    \/ RequiredArgumentBlankLine
    \/ RequiredArgumentEndOfFile
    \/ RequiredArgumentNoBrace
    \/ RequiredArgumentOpen
    \/ RequiredArgumentReturn

Spec == Init /\ [][Next]_vars

\* The same parser on the inputs that hold a backslash, the only ones on which
\* command_parse runs.
InitCommands == Init /\ \E i \in 1..Len(input) : input[i] = Backslash
SpecCommands == InitCommands /\ [][Next]_vars

\* The same parser on the inputs without backslash and %: braces, plain text and
\* line feeds.
InitBraces == Init /\ \A i \in 1..Len(input) : input[i] \notin {Backslash, "%"}
\* The actions that scan such an input.
NextBraces ==
    \/ DefineCommand
    \/ Parse
    \/ TextParseEndOfLine
    \/ TextParseOther
    \/ TextParseOpenBrace
    \/ TextParseCloseBrace
    \/ TextParseUnexpectedCloseBrace
SpecBraces == InitBraces /\ [][NextBraces]_vars

\* ---------------------------------------------------------------- properties

SourceLines == StrLines(input)
PlainChars == Letters \cup Whitespace
IsPlain(s) == \A i \in 1..Len(s) : s[i] \in PlainChars
IsBlank(s) == \A i \in 1..Len(s) : s[i] \in Whitespace
AllLetters(s) == \A i \in 1..Len(s) : s[i] \in Letters
IsError(e) == e.tag = "Err"
EntryLocation(e) == IF IsError(e) THEN e.context.location ELSE e.location
\* Source order of two locations: by line, then by column.
LocationLeq(a, b) ==
    \/ a.line_number < b.line_number
    \/ a.line_number = b.line_number /\ a.column <= b.column
\* parse() has returned with the whole input read.
EndOfInputReached == pc = "done" /\ lines = <<>> /\ AtEnd(Cur)
RequiredParsedTokens == << <<"Required", "ParsedTokens">> >>

\* C1: for an input of one or more lines of plain text, when parse() has
\* returned no line is left with the supplier and every non-blank line has a
\* ParsedText token in the result.
C1_ParseDrainsPlainText ==
    (pc = "done" /\ SourceLines # <<>> /\ \A n \in 1..Len(SourceLines) : IsPlain(SourceLines[n]))
    => /\ lines = <<>>
       /\ \A n \in 1..Len(SourceLines) :
             ~IsBlank(SourceLines[n])
             => \E k \in 1..Len(result) :
                   /\ result[k].kind = "ParsedText"
                   /\ result[k].location.line_number = n

\* ---- the invocation at the cursor, read off the line

\* The end of the run of characters of S that starts at offset b of string s:
\* the least offset at or after b that holds no character of S.
RunEnd(s, b, S) ==
    CHOOSE e \in b..Len(s) :
        /\ \A k \in b..(e - 1) : s[k + 1] \in S
        /\ e = Len(s) \/ s[e + 1] \notin S

\* The scanner stands on a backslash that a letter follows.
AtNamedInvocation ==
    /\ Scanning(Backslash)
    /\ char_iterator + 1 < Len(line.contents)
    /\ line.contents[char_iterator + 2] \in Letters

InvokedNameEnd == RunEnd(line.contents, char_iterator + 1, Letters)
InvokedName == SubSeq(line.contents, char_iterator + 2, InvokedNameEnd)
\* The offset of the first character after the name and the whitespace behind it.
AfterInvocation == RunEnd(line.contents, InvokedNameEnd, Whitespace)

\* The output before the step, with the text pending before the backslash pushed.
OutputWithPendingText ==
    IF Top.start = char_iterator
    THEN output
    ELSE Append(output, [tag |-> "Ok", kind |-> "ParsedText",
                         location |-> [file |-> line.file, line_number |-> line.line_number,
                                       column |-> Top.start],
                         text |-> SubSeq(line.contents, Top.start + 1, char_iterator)])

\* The step leaves the scanner in the loop of the same text_parse call, with no
\* group opened, its pending text starting at the cursor.
StaysInLoop ==
    /\ stack' = stack
    /\ Len(frames') = Len(frames)
    /\ frames'[Len(frames')].at = "loop"
    /\ frames'[Len(frames')].start = char_iterator'

\* The step leaves the cursor on the character after the invocation: on the same
\* line when one is left there, else at the start of the next line.
ResumesAfterInvocation ==
    IF AfterInvocation < Len(line.contents)
    THEN line' = line /\ lines' = lines /\ char_iterator' = AfterInvocation
    ELSE /\ char_iterator' = 0
         /\ IF lines = <<>>
            THEN lines' = <<>> /\ line'.contents = <<>>
            ELSE lines' = Tail(lines) /\ line'.contents = Head(lines)
                 /\ line'.line_number = line.line_number + 1

\* The input is the one line  \ name blanks text : text plain, starting with a letter.
OneInvocationThenText(name, blanks, text) ==
    /\ name # <<>> /\ AllLetters(name)
    /\ IsBlank(blanks)
    /\ text # <<>> /\ IsPlain(text) /\ text[1] \in Letters
    /\ blanks # <<>>
    /\ input = <<Backslash>> \o name \o blanks \o text

StringLocation(line_number, column) ==
    [file |-> "STRING CONSTANT", line_number |-> line_number, column |-> column]

\* C2 (the step): scanning \name with name unregistered appends one
\* UndefinedCommand error carrying the name and the backslash's column, opens no
\* group, calls for no argument, and leaves the cursor after the name and its
\* trailing whitespace.
C2_UndefinedStep ==
    (AtNamedInvocation /\ ~\E c \in commands : c.name = InvokedName)
    => /\ output' = Append(OutputWithPendingText,
                           [tag |-> "Err", kind |-> "UndefinedCommand",
                            context |-> [location |-> [file |-> line.file,
                                                       line_number |-> line.line_number,
                                                       column |-> char_iterator],
                                         line_contents |-> line.contents],
                            command_name |-> InvokedName])
       /\ StaysInLoop
       /\ ResumesAfterInvocation

\* C2 (the result): the text after an undefined invocation is still emitted.
C2_TextAfterUndefined ==
    pc = "done"
    => \A i \in 2..Len(input), j \in 2..Len(input) :
          (i <= j /\ OneInvocationThenText(SubSeq(input, 2, i), SubSeq(input, i + 1, j),
                                           SubSeq(input, j + 1, Len(input)))
                 /\ ~\E c \in commands : c.name = SubSeq(input, 2, i))
          => result = << [tag |-> "Err", kind |-> "UndefinedCommand",
                          context |-> [location |-> StringLocation(1, 0),
                                       line_contents |-> input],
                          command_name |-> SubSeq(input, 2, i)],
                         ParsedText(StringLocation(1, j), SubSeq(input, j + 1, Len(input))) >>

\* C2: for every name of letters that is not registered, scanning \name at
\* column c appends exactly one UndefinedCommand error with that name and column,
\* attempts no argument, emits no Command token, and scanning resumes after the
\* name and its trailing whitespace, so the text behind it is still emitted.
C2_UndefinedCommand == [][C2_UndefinedStep]_vars /\ []C2_TextAfterUndefined

C2_Witness ==
    /\ pc = "done"
    /\ Len(result) = 2
    /\ result[1].kind = "UndefinedCommand"
    /\ result[1].command_name = <<"a">>
    /\ result[2].kind = "ParsedText"
    /\ result[2].location.line_number = 1

\* C3 (the step): scanning \name with name registered without parameters appends
\* one Command token at the backslash's column, holding the definition and no
\* argument, and leaves the cursor, and the start of the pending text, on the
\* first character after the name and the whitespace behind it.
C3_NoParameterStep ==
    (AtNamedInvocation /\ \E c \in commands : c.name = InvokedName /\ c.parameters = <<>>)
    => /\ output' = Append(OutputWithPendingText,
                           [tag |-> "Ok", kind |-> "Command",
                            location |-> [file |-> line.file,
                                          line_number |-> line.line_number,
                                          column |-> char_iterator],
                            command |-> [name |-> InvokedName, parameters |-> <<>>],
                            args |-> <<>>])
       /\ StaysInLoop
       /\ ResumesAfterInvocation

\* C3 (the result): \name, whitespace, text yields the Command token and then
\* the text without the whitespace.
C3_CommandThenText ==
    pc = "done"
    => \A i \in 2..Len(input), j \in 2..Len(input) :
          (i <= j /\ OneInvocationThenText(SubSeq(input, 2, i), SubSeq(input, i + 1, j),
                                           SubSeq(input, j + 1, Len(input)))
                 /\ Command(SubSeq(input, 2, i), <<>>) \in commands)
          => result = << CommandToken(StringLocation(1, 0), Command(SubSeq(input, 2, i), <<>>), <<>>),
                         ParsedText(StringLocation(1, j), SubSeq(input, j + 1, Len(input))) >>

\* C3: for a command registered with no parameters, \name followed by
\* whitespace and text appends exactly one Command token (at the backslash, with
\* the definition and an empty argument list) followed by a ParsedText token that
\* starts at the first non-whitespace character after the name; the whitespace
\* is in no token.
C3_NoParameterCommand == [][C3_NoParameterStep]_vars /\ []C3_CommandThenText

C3_Witness ==
    /\ pc = "done"
    /\ input = <<Backslash, "a", " ", " ", "a">>
    /\ Len(result) = 2
    /\ result[1].kind = "Command"
    /\ result[1].args = <<>>
    /\ result[2] = ParsedText(StringLocation(1, 4), <<"a">>)

\* The entries a string of braces, plain text and line feeds must yield for its
\* braces, in source order: i the index into s, ln and col the place of s[i],
\* depth the number of Brace groups open.
RECURSIVE BraceEntries(_, _, _, _, _)
BraceEntries(s, i, ln, col, depth) ==
    IF i > Len(s) THEN <<>>
    ELSE IF s[i] = NL THEN BraceEntries(s, i + 1, ln + 1, 0, depth)
    ELSE IF s[i] = "{"
         THEN <<[kind |-> "Bgroup", line_number |-> ln, column |-> col, group_type |-> "-"]>>
              \o BraceEntries(s, i + 1, ln, col + 1, depth + 1)
    ELSE IF s[i] = "}" /\ depth > 0
         THEN <<[kind |-> "Egroup", line_number |-> ln, column |-> col, group_type |-> "-"]>>
              \o BraceEntries(s, i + 1, ln, col + 1, depth - 1)
    ELSE IF s[i] = "}"
         THEN <<[kind |-> "UnexpectedCloseBrace", line_number |-> ln, column |-> col,
                 group_type |-> "None"]>>
              \o BraceEntries(s, i + 1, ln, col + 1, depth)
    ELSE BraceEntries(s, i + 1, ln, col + 1, depth)

\* The entries of a result other than ParsedText: kind, place, and the group
\* type an error carries.
RECURSIVE NonTextEntries(_)
NonTextEntries(seq) ==
    IF seq = <<>> THEN <<>>
    ELSE LET e == Head(seq)
         IN  IF e.kind = "ParsedText" THEN NonTextEntries(Tail(seq))
             ELSE <<[kind |-> e.kind,
                     line_number |-> EntryLocation(e).line_number,
                     column |-> EntryLocation(e).column,
                     group_type |-> IF e.kind = "UnexpectedCloseBrace"
                                    THEN e.group_type ELSE "-"]>>
                  \o NonTextEntries(Tail(seq))

\* The input holds only braces, plain text, and line feeds directly after a brace.
BracesAndText ==
    \A i \in 1..Len(input) :
        /\ input[i] \in PlainChars \cup {"{", "}", NL}
        /\ input[i] = NL => (i > 1 /\ input[i - 1] \in {"{", "}"})

\* C4: for an input of braces, plain text and line breaks directly after a
\* brace, parse() emits one Bgroup per {, one Egroup per } that closes an open
\* Brace group and one UnexpectedCloseBrace carrying None per } met with the
\* group stack empty, in source order and at the brace's place; scanning goes on
\* after an unexpected }.
C4_BracesMatch ==
    (pc = "done" /\ BracesAndText)
    => NonTextEntries(result) = BraceEntries(input, 1, 1, 0, 0)

C4_Witness ==
    /\ pc = "done"
    /\ input = <<"{", NL, "}", "}", "{">>
    /\ Len(result) = 4
    /\ result[2].kind = "Egroup"
    /\ result[3].kind = "UnexpectedCloseBrace"
    /\ result[3].group_type = "None"
    /\ result[4].kind = "Bgroup"

\* The input is X % Y, a line feed, Z: X and Z letters, Y any characters of one line.
CommentThenLine(X, Y, Z) ==
    /\ X # <<>> /\ Z # <<>> /\ Y # <<>>
    /\ AllLetters(X) /\ AllLetters(Z)
    /\ \A i \in 1..Len(Y) : Y[i] # NL
    /\ input = X \o <<"%">> \o Y \o <<NL>> \o Z

\* C5: for the input X%Y followed by the line Z, parse() returns ParsedText(X)
\* of line 1 and then ParsedText(Z) of line 2, and nothing of Y.
C5_CommentDropsRestOfLine ==
    pc = "done"
    => \A i \in 1..Len(input), j \in 1..Len(input) :
          (i < j /\ CommentThenLine(SubSeq(input, 1, i - 1), SubSeq(input, i + 1, j - 1),
                                    SubSeq(input, j + 1, Len(input))))
          => result = << ParsedText([file |-> "STRING CONSTANT", line_number |-> 1, column |-> 0],
                                    SubSeq(input, 1, i - 1)),
                         ParsedText([file |-> "STRING CONSTANT", line_number |-> 2, column |-> 0],
                                    SubSeq(input, j + 1, Len(input))) >>

\* The number of whitespace-only lines at the head of a sequence of lines.
LeadingBlankLines(ls) ==
    CHOOSE k \in 0..Len(ls) :
        /\ \A n \in 1..k : IsBlank(ls[n])
        /\ k = Len(ls) \/ ~IsBlank(ls[k + 1])

\* The scanner stands on \name, name registered with a first parameter
\* (Required, ParsedTokens), nothing but whitespace follows on the line, then one
\* or more whitespace-only lines, then a line with another character.
AtInvocationBeforeBlankLine ==
    /\ AtNamedInvocation
    /\ \E c \in commands :
          /\ c.name = InvokedName
          /\ c.parameters # <<>>
          /\ c.parameters[1] = <<"Required", "ParsedTokens">>
    /\ AfterInvocation = Len(line.contents)
    /\ LeadingBlankLines(lines) >= 1
    /\ LeadingBlankLines(lines) < Len(lines)

\* C6 (the step): the invocation appends one BlankLineWhileParsingCommandArguments
\* error with the command's name and parameter number 1, opens no group, and
\* leaves the scanner in its loop on the first non-whitespace character behind
\* the blank lines.
C6_BlankLineStep ==
    AtInvocationBeforeBlankLine
    => LET k == LeadingBlankLines(lines)
       IN  /\ Len(output') = Len(OutputWithPendingText) + 1
           /\ SubSeq(output', 1, Len(output') - 1) = OutputWithPendingText
           /\ output'[Len(output')].tag = "Err"
           /\ output'[Len(output')].kind = "BlankLineWhileParsingCommandArguments"
           /\ output'[Len(output')].command_name = InvokedName
           /\ output'[Len(output')].arg_number = 1
           /\ StaysInLoop
           /\ lines' = SubSeq(lines, k + 2, Len(lines))
           /\ line'.contents = lines[k + 1]
           /\ line'.line_number = line.line_number + k + 1
           /\ char_iterator' = RunEnd(lines[k + 1], 0, Whitespace)

\* C6 (the result): the text behind the blank line is scanned as ordinary content.
C6_TextAfterBlankLine ==
    (pc = "done" /\ Len(input) >= 5
       /\ SubSeq(input, 1, 4) = <<Backslash, "a", NL, NL>>
       /\ AllLetters(SubSeq(input, 5, Len(input)))
       /\ Command(<<"a">>, RequiredParsedTokens) \in commands)
    => /\ Len(result) = 2
       /\ result[1].kind = "BlankLineWhileParsingCommandArguments"
       /\ result[1].command_name = <<"a">>
       /\ result[1].arg_number = 1
       /\ result[2] = ParsedText(StringLocation(3, 0), SubSeq(input, 5, Len(input)))

\* C6: for a command whose first parameter is (Required, ParsedTokens), when the
\* whitespace between the name and the argument crosses two or more line ends
\* before a non-whitespace character, the invocation appends exactly one
\* BlankLineWhileParsingCommandArguments error with the command's name and
\* parameter number 1 and no Command token, and the text after the blank line is
\* scanned as ordinary content.
C6_BlankLineBeforeArgument == [][C6_BlankLineStep]_vars /\ []C6_TextAfterBlankLine

C6_Witness ==
    /\ pc = "done"
    /\ input = <<Backslash, "a", NL, NL, "a">>
    /\ Len(result) = 2
    /\ result[1].kind = "BlankLineWhileParsingCommandArguments"
    /\ result[2].kind = "ParsedText"

\* The input is one invocation of \a with its argument present: \a{text}, \a x
\* or \a\a{text} (text letters, x a letter).
ArgumentPresent ==
    \/ /\ Len(input) >= 4
       /\ SubSeq(input, 1, 3) = <<Backslash, "a", "{">>
       /\ input[Len(input)] = "}"
       /\ AllLetters(SubSeq(input, 4, Len(input) - 1))
    \/ input = <<Backslash, "a", " ", "a">>
    \/ /\ Len(input) >= 6
       /\ SubSeq(input, 1, 5) = <<Backslash, "a", Backslash, "a", "{">>
       /\ input[Len(input)] = "}"
       /\ AllLetters(SubSeq(input, 6, Len(input) - 1))

\* C7: with a registered with one (Required, ParsedTokens) parameter, an
\* invocation whose argument is present yields one Command token for a, at the
\* backslash, with exactly one argument.
C7_RequiredArgumentYieldsCommand ==
    (pc = "done" /\ commands = {Command(<<"a">>, RequiredParsedTokens)} /\ ArgumentPresent)
    => /\ Len(result) = 1
       /\ result[1].kind = "Command"
       /\ result[1].command.name = <<"a">>
       /\ result[1].location.column = 0
       /\ Len(result[1].args) = 1

\* The input is \a{text}: one invocation whose argument is opened with {.
BracedInvocation ==
    /\ Len(input) >= 4
    /\ SubSeq(input, 1, 3) = <<Backslash, "a", "{">>
    /\ input[Len(input)] = "}"
    /\ IsPlain(SubSeq(input, 4, Len(input) - 1))

\* C8: an invocation of a registered command with a Required first parameter
\* contributes one Command token or exactly one error and no Command token; the
\* tokens of a braced argument and its closing } add nothing to the stream.
C8_InvocationAllOrNothing ==
    (pc = "done" /\ BracedInvocation
       /\ \E c \in commands : c.name = <<"a">> /\ c.parameters = RequiredParsedTokens)
    => /\ Len(result) = 1
       /\ result[1].kind = "Command" \/ IsError(result[1])

\* C9: the locations of successive entries of the result never decrease.
C9_ResultInSourceOrder ==
    pc = "done"
    => \A k \in 1..(Len(result) - 1) :
          LocationLeq(EntryLocation(result[k]), EntryLocation(result[k + 1]))

\* The errors of a sequence that report a group left open at the end of input.
UnterminatedGroupReports(seq) ==
    SelectSeq(seq, LAMBDA e : IsError(e) /\ e.kind = "UnterminatedGroup")

\* Open groups of a string of braces and plain text: +1 per {, -1 per } that closes one.
RECURSIVE BraceDepth(_, _)
BraceDepth(s, i) ==
    IF i = 0 THEN 0
    ELSE LET d == BraceDepth(s, i - 1)
         IN  IF s[i] = "{" THEN d + 1
             ELSE IF s[i] = "}" /\ d > 0 THEN d - 1
             ELSE d

\* Every { of the input has its }, and the input holds nothing but braces, plain text and
\* line feeds.
BalancedBraces ==
    /\ \A i \in 1..Len(input) : input[i] \in PlainChars \cup {"{", "}", NL}
    /\ BraceDepth(input, Len(input)) = 0

\* C10: at the end of input the result reports each group still open, one
\* error per entry of the group stack in stack order, and an input with balanced
\* braces leaves the group stack empty when parse() returns.
C10_UnterminatedGroupsReported ==
    /\ EndOfInputReached
       => /\ Len(UnterminatedGroupReports(result)) = Len(stack)
          /\ \A k \in 1..Len(stack) : UnterminatedGroupReports(result)[k].group_type = stack[k]
    /\ (pc = "done" /\ BalancedBraces) => stack = <<>>

\* command_parse runs: one of the steps of the \\ arm of text_parse is taken.
CommandParseEntered ==
    \/ CommandUndefined
    \/ CommandNoParameters
    \/ CommandUnimplementedFormat
    \/ RequiredArgumentBlankLine
    \/ RequiredArgumentEndOfFile
    \/ RequiredArgumentNoBrace
    \/ RequiredArgumentOpen

\* Every call of push_text_block in the loop of text_parse passes the loop's
\* start and the cursor's column, or the length of the line at its end: the
\* slice start..end lies inside the current line.
C11_SliceInRange ==
    InLoop => /\ Top.start <= char_iterator
              /\ char_iterator <= Len(line.contents)

\* command_parse is entered with a backslash as the next character.
C11_CommandParseAtBackslash ==
    CommandParseEntered
    => /\ char_iterator < Len(line.contents)
       /\ line.contents[char_iterator + 1] = Backslash

\* When skip_whitespace returns Skipped in parse_required_argument, a character
\* is left on the line for peek().
C11_ArgumentCharacterAvailable ==
    (FirstParameterRequired /\ RequiredHead.outcome = "Skipped")
    => RequiredHead.p.char_iterator < Len(RequiredHead.p.line.contents)

\* C11: parse() never panics: whenever push_text_block(start, end) runs,
\* start <= end <= length of the current line; command_parse is entered only at
\* a backslash; parse_required_argument reads a character only when
\* skip_whitespace returned Skipped, and one is then available.
C11_NoPanic ==
    /\ [][C11_CommandParseAtBackslash]_vars
    /\ [](C11_SliceInRange /\ C11_ArgumentCharacterAvailable)

\* A run in which parse_required_argument read a character after
\* skip_whitespace returned Skipped, and text of the second line was pushed
\* after it.
C11_Witness ==
    /\ pc = "done"
    /\ \E i, j \in 1..Len(result) :
          /\ i < j
          /\ result[i].kind = "Unimplemented"
          /\ result[j].kind = "ParsedText"
          /\ result[j].location.line_number = 2

\* The characters that text_parse gives a meaning of their own.
SymbolChars == {Backslash, "%", "{", "}"}

\* The input is the one line  \ symbol text : text plain and not empty.
SymbolInvocationThenText ==
    /\ Len(input) >= 3
    /\ input[1] = Backslash
    /\ input[2] \in SymbolChars
    /\ IsPlain(SubSeq(input, 3, Len(input)))

\* C12: when the character after a backslash is not a letter, the command name
\* is that one character, no whitespace after it is skipped, and the character
\* is consumed with the invocation: for the line \s text with s one of
\* % { } \ and unregistered, the result is the UndefinedCommand error for s at
\* column 0 and the text behind it at column 2, s being scanned only once.
C12_SymbolNameConsumed ==
    (pc = "done" /\ SymbolInvocationThenText /\ ~\E c \in commands : c.name = <<input[2]>>)
    => result = << [tag |-> "Err", kind |-> "UndefinedCommand",
                    context |-> [location |-> StringLocation(1, 0),
                                 line_contents |-> input],
                    command_name |-> <<input[2]>>],
                   ParsedText(StringLocation(1, 2), SubSeq(input, 3, Len(input))) >>

\* C13: no ParsedText token located at column 0 of a line starts with a
\* whitespace character, whatever ended the line before it.
C13_NoLeadingWhitespace ==
    pc = "done"
    => \A k \in 1..Len(result) :
          (result[k].kind = "ParsedText" /\ result[k].location.column = 0)
          => result[k].text[1] \notin Whitespace

\* C14: every error of the result carries the number of a line of the source,
\* that line's text as line_contents, and a column inside that line.
C14_ErrorContextConsistent ==
    pc = "done"
    => \A k \in 1..Len(result) :
          IsError(result[k])
          => LET context == result[k].context
             IN  /\ context.location.line_number \in 1..Len(SourceLines)
                 /\ context.line_contents = SourceLines[context.location.line_number]
                 /\ context.location.column <= Len(context.line_contents)

====
